---- MODULE Spec2Model ----
(***************************************************************************)
(* Model of natemcintosh/qtictactoe: the N x N board engine                *)
(* (src/src/tic_tac_toe.rs), the tabular Q-learner (src/src/q_matrix.rs)   *)
(* and the training loop of the agent (src/src/agent.rs).                  *)
(*                                                                         *)
(* Pieces are the integers the source casts them to (Empty = 0, X = 1,     *)
(* O = -1).  An Option<Player> / Option<GameResult> is the string "None"   *)
(* or the name of the variant; a Rust panic (failed assertion, index out   *)
(* of bounds, expect on None) is the string "Panic".                       *)
(* An f64 is modelled by the dyadic rational it holds, [m |-> mantissa,    *)
(* e |-> exponent] standing for m / 2^e: with alpha = discount = 0.5 and   *)
(* rewards in {-100, 0, 100} every value the bounded runs compute has a    *)
(* short mantissa, so each f64 operation is exact.                         *)
(***************************************************************************)
EXTENDS Integers, Sequences, FiniteSets, TLC

VARIABLES
    N,          \* the const generic board size of the build
    board,      \* Board::board of the game being played
    player,     \* the mover of the next make_move in a game
    moves,      \* successful make_move calls on `board` so far
    result,     \* what the last make_move returned
    panicked,   \* the process has hit a fatal condition
    illegal,    \* the make_move call made on a cell that was not Empty or not on the board:
                \* its arguments and the board it was made on
    alpha,      \* Q::alpha
    discount,   \* Q::discount
    values,     \* Q::values
    qsteps,     \* Q::update calls made directly on the table (not by training)
    qcall,      \* the last call on the Q-table: its arguments, what it read, what it returned
    counted,    \* the last call of Q::possible_minus_explored and how it ended
    eps,        \* Agent::eps, the f64 it holds (sign and magnitude in units of 2^-69)
    state,      \* learn_one_game: `state`, the board before the agent's move
    action,     \* learn_one_game: `action`, the agent's move of this iteration
    pc,         \* position in learn / learn_one_game
    episodes,   \* completed iterations of the loop of Agent::learn
    learn_n,    \* the argument n of the call of Agent::learn
    picked      \* the last call of Agent::get_action made from outside training:
                \* its arguments and how it ended

vars == <<N, board, player, moves, result, panicked, illegal, alpha, discount,
          values, qsteps, qcall, counted, eps, state, action, pc, episodes,
          learn_n, picked>>

boardVars == <<N, board, player, moves, result, panicked, illegal>>
qVars == <<alpha, discount, values, qsteps, qcall, counted>>
agentVars == <<eps, state, action, pc, episodes, learn_n, picked>>

----------------------------------------------------------------------------
(* Bounds of the model.                                                    *)

\* board sizes the model is built for
Sizes == {2, 3, 4}

\* make_move calls explored on a board larger than 3 x 3, any mover
MaxFreeMovesBig == 3

\* make_move calls explored in an alternating game on a board larger than 3 x 3
MaxGameMovesBig == 5

----------------------------------------------------------------------------
(* src/src/tic_tac_toe.rs                                                  *)

Empty == 0

PieceX == 1

PieceO == 0 - 1

Pieces == {Empty, PieceX, PieceO}

Players == {"X", "O"}

\* a next_player that hands the turn back to the same player
next_player_same(p) == p

next_player(p) == IF p = "X" THEN "O" ELSE "X"

PieceOf(p) == IF p = "X" THEN PieceX ELSE PieceO

Board_new(n) == [r \in 0..(n - 1) |-> [c \in 0..(n - 1) |-> Empty]]

RECURSIVE SumSeq(_)
SumSeq(s) == IF s = <<>> THEN 0 ELSE Head(s) + SumSeq(Tail(s))

\* the sum that a line helper compares its line's sum with
WinSum == 3

\* the number of rows, and of columns, that get_winner visits
LinesChecked == 3

\* a line helper that forgets the arm for -3
LineWinner_noO(sum) == IF sum = WinSum THEN "X" ELSE "None"

LineWinner(sum) ==
    IF sum = WinSum THEN "X"
    ELSE IF sum = 0 - WinSum THEN "O"
    ELSE "None"

\* self.board[row_num] as the sequence its iterator yields
get_row(b, n, row_num) == [i \in 1..n |-> b[row_num][i - 1]]

row_winner(b, n, row_num) ==
    IF row_num >= n THEN "Panic"
    ELSE LineWinner(SumSeq(get_row(b, n, row_num)))

get_col(b, n, col_num) == [i \in 1..n |-> b[i - 1][col_num]]

col_winner(b, n, col_num) ==
    IF col_num >= n THEN "Panic"
    ELSE LineWinner(SumSeq(get_col(b, n, col_num)))

get_lr_diag(b, n) == [i \in 1..n |-> b[i - 1][i - 1]]

\* a right-to-left diagonal read from the bottom-left corner up
get_rl_diag_bottomUp(b, n) == [i \in 1..n |-> b[(n - 1) - (i - 1)][i - 1]]

get_rl_diag(b, n) == [i \in 1..n |-> b[i - 1][(n - 1) - (i - 1)]]

diagonal_winner(b, n) ==
    LET lr_val == SumSeq(get_lr_diag(b, n))
        rl_val == SumSeq(get_rl_diag(b, n))
    IN  IF lr_val = WinSum THEN "X"
        ELSE IF lr_val = 0 - WinSum THEN "O"
        ELSE IF rl_val = WinSum THEN "X"
        ELSE IF rl_val = 0 - WinSum THEN "O"
        ELSE "None"

ResultOf(winner) == IF winner = "X" THEN "XWon" ELSE "OWon"

\* the loop over the rows 0, 1, 2: the first row with a winner decides
RECURSIVE RowScan(_, _, _)
RowScan(b, n, row_num) ==
    IF row_num >= LinesChecked THEN "None"
    ELSE LET w == row_winner(b, n, row_num)
         IN  IF w = "Panic" THEN "Panic"
             ELSE IF w # "None" THEN ResultOf(w)
             ELSE RowScan(b, n, row_num + 1)

\* a loop over the columns that finds no winner
ColScan_none(b, n, col_num) == "None"

RECURSIVE ColScan(_, _, _)
ColScan(b, n, col_num) ==
    IF col_num >= LinesChecked THEN "None"
    ELSE LET w == col_winner(b, n, col_num)
         IN  IF w = "Panic" THEN "Panic"
             ELSE IF w # "None" THEN ResultOf(w)
             ELSE ColScan(b, n, col_num + 1)

get_winner(b, n) ==
    LET rows == RowScan(b, n, 0)
    IN  IF rows # "None" THEN rows
        ELSE LET cols == ColScan(b, n, 0)
             IN  IF cols # "None" THEN cols
                 ELSE LET d == diagonal_winner(b, n)
                      IN  IF d # "None" THEN ResultOf(d) ELSE "None"

\* an is_ended that looks at the first row only
is_ended_firstRow(b, n) == ~(\E c \in 0..(n - 1) : b[0][c] = Empty)

\* an is_ended that never sees a full board
is_ended_never(b, n) == FALSE

\* an is_ended that calls the board full while one cell is still Empty
is_ended_oneLeft(b, n) ==
    Cardinality({cell \in (0..(n - 1)) \X (0..(n - 1)) : b[cell[1]][cell[2]] = Empty}) <= 1

is_ended(b, n) == ~(\E r \in 0..(n - 1) : \E c \in 0..(n - 1) : b[r][c] = Empty)

\* an inner loop that pushes (col, row)
RECURSIVE EmptyInRow_swapped(_, _, _, _)
EmptyInRow_swapped(b, n, row, col) ==
    IF col >= n THEN <<>>
    ELSE (IF b[row][col] = Empty THEN <<(<<col, row>>)>> ELSE <<>>)
         \o EmptyInRow_swapped(b, n, row, col + 1)

\* the inner loop of get_empty_spots: the columns col..N-1 of one row
RECURSIVE EmptyInRow(_, _, _, _)
EmptyInRow(b, n, row, col) ==
    IF col >= n THEN <<>>
    ELSE (IF b[row][col] = Empty THEN <<(<<row, col>>)>> ELSE <<>>)
         \o EmptyInRow(b, n, row, col + 1)

\* the outer loop of get_empty_spots: the rows row..N-1
RECURSIVE EmptyFromRow(_, _, _)
EmptyFromRow(b, n, row) ==
    IF row >= n THEN <<>>
    ELSE EmptyInRow(b, n, row, 0) \o EmptyFromRow(b, n, row + 1)

get_empty_spots(b, n) == EmptyFromRow(b, n, 0)

\* a make_move without its assert_eq!: only the bounds checks of the indexing are left
MoveAllowed_noAssert(b, n, row_num, col_num) == row_num < n /\ col_num < n

\* the assert_eq! of make_move, with the bounds checks of its indexing
MoveAllowed(b, n, row_num, col_num) ==
    /\ row_num < n
    /\ col_num < n
    /\ b[row_num][col_num] = Empty

\* the write of make_move
PlacePiece(b, p, row_num, col_num) ==
    [b EXCEPT ![row_num][col_num] = PieceOf(p)]

\* a make_move that checks for the tie before it checks for a winner
Outcome_tieFirst(b, n) ==
    IF is_ended(b, n) THEN "Tie"
    ELSE IF get_winner(b, n) # "None" THEN get_winner(b, n)
    ELSE "None"

\* what make_move returns once the piece is written
Outcome(b, n) ==
    LET w == get_winner(b, n)
    IN  IF w # "None" THEN w
        ELSE IF is_ended(b, n) THEN "Tie"
        ELSE "None"

\* make_move: the board it leaves and what it returns
make_move(b, n, p, row_num, col_num) ==
    IF ~MoveAllowed(b, n, row_num, col_num)
    THEN [board |-> b, result |-> "Panic"]
    ELSE LET nb == PlacePiece(b, p, row_num, col_num)
         IN  [board |-> nb, result |-> Outcome(nb, n)]

----------------------------------------------------------------------------
(* f64 values as dyadic rationals m / 2^e, kept normal: e = 0 or m odd.     *)

RECURSIVE Pow2(_)
Pow2(k) == IF k = 0 THEN 1 ELSE 2 * Pow2(k - 1)

RECURSIVE Norm(_, _)
Norm(m, e) ==
    IF e > 0 /\ m % 2 = 0 THEN Norm(m \div 2, e - 1) ELSE [m |-> m, e |-> e]

F64(k) == [m |-> k, e |-> 0]

MaxExp(a, b) == IF a.e >= b.e THEN a.e ELSE b.e

\* the mantissa of a over the denominator 2^e, e >= a.e
Scaled(a, e) == a.m * Pow2(e - a.e)

FAdd(a, b) == Norm(Scaled(a, MaxExp(a, b)) + Scaled(b, MaxExp(a, b)), MaxExp(a, b))

FSub(a, b) == Norm(Scaled(a, MaxExp(a, b)) - Scaled(b, MaxExp(a, b)), MaxExp(a, b))

FMul(a, b) == Norm(a.m * b.m, a.e + b.e)

FGeq(a, b) == Scaled(a, MaxExp(a, b)) >= Scaled(b, MaxExp(a, b))

FGt(a, b) == Scaled(a, MaxExp(a, b)) > Scaled(b, MaxExp(a, b))

Zero == F64(0)

\* 0.5, the value Q::new gives alpha and discount
OneHalf == [m |-> 1, e |-> 1]

----------------------------------------------------------------------------
(* The f64 of Agent::eps, with its full 53-bit significand.  Every value    *)
(* eps takes is a multiple of 2^-69 (1.0 is 2^69 of them, the literal       *)
(* 0.00001 is 0x14F8B588E368F1 of them), so a value is a sign and a         *)
(* magnitude counted in units of 2^-69; the magnitude is three limbs of 24  *)
(* bits, the lowest first.  A difference is computed exactly and then       *)
(* rounded to 53 significant bits, ties to even, as the hardware does.      *)

Limb == Pow2(24)

\* the bits of the significand of an f64
Significand == 53

RECURSIVE BitLen(_)
BitLen(k) == IF k = 0 THEN 0 ELSE 1 + BitLen(k \div 2)

MagBits(a) ==
    IF a[3] > 0 THEN 48 + BitLen(a[3])
    ELSE IF a[2] > 0 THEN 24 + BitLen(a[2])
    ELSE BitLen(a[1])

MagZero == <<0, 0, 0>>

MagLess(a, b) ==
    \/ a[3] < b[3]
    \/ a[3] = b[3] /\ a[2] < b[2]
    \/ a[3] = b[3] /\ a[2] = b[2] /\ a[1] < b[1]

MagAdd(a, b) ==
    LET s1 == a[1] + b[1]
        s2 == a[2] + b[2] + (s1 \div Limb)
        s3 == a[3] + b[3] + (s2 \div Limb)
    IN  <<s1 % Limb, s2 % Limb, s3>>

\* a - b for a >= b
MagSub(a, b) ==
    LET d1 == a[1] - b[1]
        b1 == IF d1 < 0 THEN 1 ELSE 0
        d2 == a[2] - b[2] - b1
        b2 == IF d2 < 0 THEN 1 ELSE 0
    IN  <<d1 + b1 * Limb, d2 + b2 * Limb, a[3] - b[3] - b2>>

\* x * k as the pair (low limb, carry), for a limb x and 0 <= k < 2^17
MulLimb(x, k) ==
    LET kl == k * (x % 4096)
        kh == k * (x \div 4096)
        t == kl + (kh % 4096) * 4096
    IN  [lo |-> t % Limb, hi |-> (kh \div 4096) + (t \div Limb)]

\* a * k, exactly, for a magnitude a and 0 <= k < 2^17
MagScale(a, k) ==
    LET p1 == MulLimb(a[1], k)
        p2 == MulLimb(a[2], k)
        p3 == MulLimb(a[3], k)
        c2 == p2.lo + p1.hi
        c3 == p3.lo + p2.hi + (c2 \div Limb)
    IN  <<p1.lo, c2 % Limb, c3 + p3.hi * Limb>>

\* a rounding that cuts the bits below the significand off
MagRound_truncating(a) ==
    LET s == MagBits(a) - Significand
    IN  IF s <= 0 THEN a ELSE <<a[1] - (a[1] % Pow2(s)), a[2], a[3]>>

\* round to nearest, ties to even, at the 53rd significant bit
MagRound(a) ==
    LET s == MagBits(a) - Significand
    IN  IF s <= 0 THEN a
        ELSE LET r == a[1] % Pow2(s)
                 down == <<a[1] - r, a[2], a[3]>>
                 odd == (a[1] \div Pow2(s)) % 2 = 1
             IN  IF 2 * r > Pow2(s) \/ (2 * r = Pow2(s) /\ odd)
                 THEN MagAdd(down, <<Pow2(s), 0, 0>>)
                 ELSE down

Signed(neg, mag) == [neg |-> neg /\ mag # MagZero, mag |-> mag]

\* the f64 difference x - y
ESub(x, y) ==
    IF x.neg # y.neg THEN Signed(x.neg, MagRound(MagAdd(x.mag, y.mag)))
    ELSE IF MagLess(x.mag, y.mag) THEN Signed(~x.neg, MagRound(MagSub(y.mag, x.mag)))
    ELSE Signed(x.neg, MagRound(MagSub(x.mag, y.mag)))

\* the f64 comparison x < y
ELess(x, y) ==
    IF x.neg # y.neg THEN x.neg
    ELSE IF x.neg THEN MagLess(y.mag, x.mag)
    ELSE MagLess(x.mag, y.mag)

EZero == Signed(FALSE, MagZero)

\* 1.0 = 2^69 units
EOne == Signed(FALSE, <<0, 0, Pow2(21)>>)

----------------------------------------------------------------------------
(* src/src/q_matrix.rs                                                     *)

Some(a) == [some |-> TRUE, act |-> a]

NoAction == [some |-> FALSE, act |-> <<>>]

\* FxHashMap::default()
EmptyMap == [k \in {} |-> Zero]

\* a get that reads 0.5 for an action its state does not hold
get_absentHalf(vals, s, a) ==
    IF s \notin DOMAIN vals THEN Zero
    ELSE IF a \notin DOMAIN vals[s] THEN OneHalf
    ELSE vals[s][a]

get(vals, s, a) ==
    IF s \notin DOMAIN vals THEN Zero
    ELSE IF a \notin DOMAIN vals[s] THEN Zero
    ELSE vals[s][a]

\* the orders in which action_map.iter() may yield the keys of a map
IterOrders(keys) ==
    {o \in [1..Cardinality(keys) -> keys] :
        \A i \in DOMAIN o : \A j \in DOMAIN o : o[i] = o[j] => i = j}

\* a closure that keeps the accumulator only when it is strictly greater
FoldStep_nonStrict(accum, k, v) ==
    IF FGt(accum.value, v) THEN accum ELSE [action |-> Some(k), value |-> v]

\* the closure given to fold
FoldStep(accum, k, v) ==
    IF FGeq(accum.value, v) THEN accum ELSE [action |-> Some(k), value |-> v]

RECURSIVE Fold(_, _, _)
Fold(action_map, order, accum) ==
    IF order = <<>> THEN accum
    ELSE Fold(action_map, Tail(order),
              FoldStep(accum, Head(order), action_map[Head(order)]))

FoldInit == [action |-> NoAction, value |-> Zero]

\* a max_action_for_state that names an action for a state the table does not hold
max_action_for_state_named(vals, s, order) ==
    IF s \in DOMAIN vals THEN Fold(vals[s], order, FoldInit)
    ELSE [action |-> Some(<<0, 0>>), value |-> Zero]

\* max_action_for_state when the map of `s` is iterated in the order `order`
max_action_for_state(vals, s, order) ==
    IF s \in DOMAIN vals THEN Fold(vals[s], order, FoldInit)
    ELSE [action |-> NoAction, value |-> Zero]

\* the iteration orders of the map of `s` (one empty order when `s` has no map)
OrdersFor(vals, s) ==
    IF s \in DOMAIN vals THEN IterOrders(DOMAIN vals[s]) ELSE {<<>>}

\* the right-hand side of `let value = ...` in update
TdValue(al, di, old, next_q, reward) ==
    FAdd(old, FMul(al, FSub(FAdd(reward, FMul(di, next_q)), old)))

\* an update that files the value under (col, row)
Store_swapped(vals, s, a, value) ==
    IF s \notin DOMAIN vals THEN vals @@ (s :> (<<a[2], a[1]>> :> Zero))
    ELSE IF <<a[2], a[1]>> \notin DOMAIN vals[s]
         THEN [vals EXCEPT ![s] = @ @@ (<<a[2], a[1]>> :> Zero)]
    ELSE [vals EXCEPT ![s][<<a[2], a[1]>>] = value]

\* an update that starts a new map for its state when the action is new to it
Store_fresh(vals, s, a, value) ==
    IF s \notin DOMAIN vals THEN vals @@ (s :> (a :> Zero))
    ELSE IF a \notin DOMAIN vals[s] THEN [vals EXCEPT ![s] = (a :> Zero)]
    ELSE [vals EXCEPT ![s][a] = value]

\* an update that writes only to a state the table already holds
Store_strict(vals, s, a, value) ==
    IF s \notin DOMAIN vals THEN vals
    ELSE IF a \notin DOMAIN vals[s] THEN [vals EXCEPT ![s] = @ @@ (a :> Zero)]
    ELSE [vals EXCEPT ![s][a] = value]

\* an update that writes its value to every action its state holds
Store_levelled(vals, s, a, value) ==
    IF s \notin DOMAIN vals THEN vals @@ (s :> (a :> Zero))
    ELSE IF a \notin DOMAIN vals[s] THEN [vals EXCEPT ![s] = @ @@ (a :> Zero)]
    ELSE [vals EXCEPT ![s] = [b \in DOMAIN @ |-> value]]

\* the match of update: what is stored when `value` has been computed
Store(vals, s, a, value) ==
    IF s \notin DOMAIN vals THEN vals @@ (s :> (a :> Zero))
    ELSE IF a \notin DOMAIN vals[s] THEN [vals EXCEPT ![s] = @ @@ (a :> Zero)]
    ELSE [vals EXCEPT ![s][a] = value]

\* an update that files its value under the next state
update_nextKey(vals, al, di, s, a, next_state, reward, order) ==
    Store(vals, next_state, a,
          TdValue(al, di, get(vals, s, a),
                  max_action_for_state(vals, next_state, order).value, reward))

update(vals, al, di, s, a, next_state, reward, order) ==
    LET value == get(vals, s, a)
        next_q == max_action_for_state(vals, next_state, order).value
    IN  Store(vals, s, a, TdValue(al, di, value, next_q, reward))

\* N as u32, as its two 16-bit halves
AsU32(n) == [hi |-> (n \div 65536) % 65536, lo |-> n % 65536]

\* x * x does not fit in a u32: x >= 2^16
SquareOverflows(x) == x.hi > 0

\* x * x modulo 2^32
WrappedSquare(x) ==
    LET l0 == x.lo % 256
        l1 == x.lo \div 256
        t == 2 * l1 * l0 * 256 + l0 * l0
        top == l1 * l1 + (t \div 65536)
        cross == (x.hi * l0 + ((x.hi * l1) % 256) * 256) % 65536
    IN  [hi |-> (top + 2 * cross) % 65536, lo |-> t % 65536]

\* i < x, for an integer i and a u32 x
Below(i, x) == x.hi > 0 \/ i < x.lo

\* the profiles of the build: overflow checks on (debug) or off (release)
Profiles == {"debug", "release"}

\* the magnitude a fits in the 64 bits of a usize
Fits64(a) == a[3] < Pow2(16)

\* 3_usize.checked_pow(exp): acc = 3^i is multiplied by 3 until i = exp, None
\* as soon as a product does not fit
RECURSIVE checked_pow(_, _, _)
checked_pow(acc, i, exp) ==
    IF ~Below(i, exp) THEN [some |-> TRUE, val |-> acc]
    ELSE IF ~Fits64(MagScale(acc, 3)) THEN [some |-> FALSE, val |-> MagZero]
    ELSE checked_pow(MagScale(acc, 3), i + 1, exp)

Counted(vals, kind, value) ==
    [called |-> TRUE, keys |-> Cardinality(DOMAIN vals), kind |-> kind, value |-> value]

\* possible_minus_explored of a Q<n> built with `profile` on a 64-bit target:
\* what it returns ("value"), or how it fails: "overflow" is the expect on
\* checked_pow, "arith" the panic of an overflow check of the build
possible_minus_explored(vals, n, profile) ==
    IF SquareOverflows(AsU32(n)) /\ profile = "debug"
    THEN Counted(vals, "arith", MagZero)
    ELSE LET n_possible_states == checked_pow(<<1, 0, 0>>, 0, WrappedSquare(AsU32(n)))
             n_explored_states == <<Cardinality(DOMAIN vals), 0, 0>>
         IN  IF ~n_possible_states.some THEN Counted(vals, "overflow", MagZero)
             ELSE IF ~MagLess(n_possible_states.val, n_explored_states)
             THEN Counted(vals, "value", MagSub(n_possible_states.val, n_explored_states))
             ELSE IF profile = "debug" THEN Counted(vals, "arith", MagZero)
             ELSE Counted(vals, "value",
                          MagSub(MagAdd(n_possible_states.val, <<0, 0, Pow2(16)>>),
                                 n_explored_states))

----------------------------------------------------------------------------
(* State after construction.                                               *)

NoIllegal(n) == [called |-> FALSE, player |-> "X", row |-> 0, col |-> 0,
                 before |-> Board_new(n)]

NoQCall == [op |-> "none", state |-> Board_new(3), action |-> <<0, 0>>,
            next_state |-> Board_new(3), reward |-> Zero, old |-> Zero,
            next_q |-> Zero, ret |-> [action |-> NoAction, value |-> Zero]]

NoCount == [called |-> FALSE, keys |-> 0, kind |-> "none", value |-> MagZero]

NoPick == [called |-> FALSE, state |-> Board_new(3), valid_actions |-> <<>>,
           panic |-> FALSE, action |-> <<0, 0>>]

\* Board::new() for a build of size n, X to move
InitBoard(n) ==
    /\ N = n
    /\ board = Board_new(n)
    /\ player = "X"
    /\ moves = 0
    /\ result = "None"
    /\ panicked = FALSE
    /\ illegal = NoIllegal(n)

\* Q::new()
InitQ ==
    /\ alpha = OneHalf
    /\ discount = OneHalf
    /\ values = EmptyMap
    /\ qsteps = 0
    /\ qcall = NoQCall
    /\ counted = NoCount

\* 1.0, the eps of Agent::new()
EpsInit == EOne

\* the f64 of a literal 0.0001, a decrement with a zero dropped
EpsStep_tenfold == Signed(FALSE, <<14817640, 11999064, 209>>)

\* the f64 of the literal 0.00001 that learn subtracts from eps after each
\* episode: 0x1.4f8b588e368f1p-17, which is 5902958103587057 units
EpsStep == Signed(FALSE, <<14903537, 16299400, 20>>)

\* an Agent whose pub field eps holds e, no training started
InitAgent(e) ==
    /\ eps = e
    /\ state = Board_new(3)
    /\ action = <<0, 0>>
    /\ pc = "idle"
    /\ episodes = 0
    /\ learn_n = 0
    /\ picked = NoPick

\* Agent::new(), no training started
InitAgentIdle == InitAgent(EpsInit)

----------------------------------------------------------------------------
(* The board engine driven directly.                                       *)

\* the elements of a slice: what choose() may return
Elements(seq) == {seq[i] : i \in DOMAIN seq}

\* (row_num, col_num) is a cell of the board and it is Empty
TargetEmpty(b, n, row_num, col_num) ==
    /\ row_num \in 0..(n - 1)
    /\ col_num \in 0..(n - 1)
    /\ b[row_num][col_num] = Empty

\* the record of a call make_move(p, row_num, col_num) made on the board
Noted(p, row_num, col_num) ==
    IF TargetEmpty(board, N, row_num, col_num) THEN illegal
    ELSE [called |-> TRUE, player |-> p, row |-> row_num, col |-> col_num,
          before |-> board]

\* one call make_move(p, row_num, col_num) on the board, legal or not
Call(p, row_num, col_num) ==
    \E res \in {make_move(board, N, p, row_num, col_num)} :
        /\ board' = res.board
        /\ result' = res.result
        /\ panicked' = (res.result = "Panic")
        /\ moves' = IF res.result # "Panic" THEN moves + 1 ELSE moves
        /\ player' = next_player(p)
        /\ illegal' = Noted(p, row_num, col_num)

FreeCap == IF N <= 3 THEN N * N + 1 ELSE MaxFreeMovesBig

GameCap == IF N <= 3 THEN N * N + 1 ELSE MaxGameMovesBig

\* any caller: any player, any coordinates (N stands for every index >= N)
BoardMove ==
    /\ ~panicked
    /\ moves < FreeCap
    /\ \E p \in Players : \E row_num \in 0..N : \E col_num \in 0..N :
           Call(p, row_num, col_num)
    /\ UNCHANGED <<N, qVars, agentVars>>

\* a game: the players alternate, X first, each moving to one of the empty
\* spots, until make_move returns a result
GameMove ==
    /\ ~panicked
    /\ result = "None"
    /\ moves < GameCap
    /\ \E a \in Elements(get_empty_spots(board, N)) : Call(player, a[1], a[2])
    /\ UNCHANGED <<N, qVars, agentVars>>

InitBoards == (\E n \in Sizes : InitBoard(n)) /\ InitQ /\ InitAgentIdle

SpecBoard == InitBoards /\ [][BoardMove]_vars

SpecGame == InitBoards /\ [][GameMove]_vars

----------------------------------------------------------------------------
(* The Q-table driven directly, on 3 x 3 boards.                           *)

\* Q::update calls explored when the table is driven directly
MaxQSteps == 3

\* the board sizes for which boards are built as keys of the table
KeySizes == {3, 6, 7}

\* the boards used as keys: the empty board and the board after X (1,1), O (0,0)
QBoards ==
    IF N \in KeySizes
    THEN {Board_new(N), PlacePiece(PlacePiece(Board_new(N), "X", 1, 1), "O", 0, 0)}
    ELSE {}

QActions == {<<0, 1>>, <<2, 2>>}

\* the rewards learn_one_game passes
Rewards == {F64(100), F64(0 - 100), F64(0)}

QUpdate ==
    /\ ~panicked
    /\ qsteps < MaxQSteps
    /\ \E s \in QBoards : \E a \in QActions : \E s2 \in QBoards : \E r \in Rewards :
       \E order \in OrdersFor(values, s2) :
           /\ values' = update(values, alpha, discount, s, a, s2, r, order)
           /\ qcall' = [op |-> "update", state |-> s, action |-> a,
                        next_state |-> s2, reward |-> r,
                        old |-> get(values, s, a),
                        next_q |-> max_action_for_state(values, s2, order).value,
                        ret |-> [action |-> NoAction, value |-> Zero]]
    /\ qsteps' = qsteps + 1
    /\ UNCHANGED <<alpha, discount, counted, boardVars, agentVars>>

QGet ==
    /\ ~panicked
    /\ \E s \in QBoards : \E a \in QActions :
           qcall' = [op |-> "get", state |-> s, action |-> a,
                     next_state |-> s, reward |-> Zero, old |-> Zero,
                     next_q |-> Zero,
                     ret |-> [action |-> NoAction, value |-> get(values, s, a)]]
    /\ UNCHANGED <<alpha, discount, values, qsteps, counted, boardVars, agentVars>>

QMax ==
    /\ ~panicked
    /\ \E s \in QBoards : \E order \in OrdersFor(values, s) :
           qcall' = [op |-> "max", state |-> s, action |-> <<0, 0>>,
                     next_state |-> s, reward |-> Zero, old |-> Zero,
                     next_q |-> Zero,
                     ret |-> max_action_for_state(values, s, order)]
    /\ UNCHANGED <<alpha, discount, values, qsteps, counted, boardVars, agentVars>>

----------------------------------------------------------------------------
(* src/src/agent.rs                                                        *)

\* the values of eps that get_action is called with when it is driven directly:
\* 1.0, 0.99999, 0.0 and -0.00001
EpsValues == {EpsInit, ESub(EpsInit, EpsStep), EZero, ESub(EZero, EpsStep)}

\* iterations of the loop of Agent::learn that are explored on a 3 x 3 board
MaxEpisodes == 4

\* iterations of the loop of Agent::learn that are explored on a larger board
MaxEpisodesBig == 1

\* the n of learn(n)
EpisodeCap == IF N <= 3 THEN MaxEpisodes ELSE MaxEpisodesBig

\* the board sizes training is explored for
TrainSizes == {3, 4}

\* the indices the random number generator is let to draw for the agent's choose()
AgentDraws == {0, 1}

\* the indices the random number generator is let to draw for the opponent's choose()
OpponentDraws == {0}

\* slice.choose(&mut rng).expect(..): the values it may yield, "Panic" on an empty slice
choose(slice, draws) ==
    IF slice = <<>> THEN {[panic |-> TRUE, action |-> <<0, 0>>]}
    ELSE {[panic |-> FALSE, action |-> slice[i + 1]] :
              i \in {d \in draws : d < Len(slice)}}

\* a comparison with eps that can come out true whatever eps is
CanExplore_always(e) == TRUE

\* u.sample(&mut rng) < self.eps can come out true: some u in [0, 1) is below eps
CanExplore(e) == ELess(EZero, e)

\* u.sample(&mut rng) < self.eps can come out false: some u in [0, 1) is not below eps
CanExploit(e) == ELess(e, EOne)

\* the match on max_action_for_state in get_action, for one iteration order
Greedy(vals, s, valid_actions, order) ==
    IF max_action_for_state(vals, s, order).action.some
    THEN {[panic |-> FALSE, action |-> max_action_for_state(vals, s, order).action.act]}
    ELSE choose(valid_actions, AgentDraws)

\* get_action: everything it may return
get_action(vals, e, s, valid_actions) ==
    (IF CanExplore(e) THEN choose(valid_actions, AgentDraws) ELSE {})
    \cup
    (IF CanExploit(e)
     THEN UNION {Greedy(vals, s, valid_actions, order) : order \in OrdersFor(vals, s)}
     ELSE {})

\* an update that is given the board before the agent's move as its next state
TrainUpdate_stale(s, a, next_state, reward) ==
    \E order \in OrdersFor(values, s) :
        /\ values' = update(values, alpha, discount, s, a, s, reward, order)
        /\ qcall' = [op |-> "update", state |-> s, action |-> a,
                     next_state |-> s, reward |-> reward,
                     old |-> get(values, s, a),
                     next_q |-> max_action_for_state(values, s, order).value,
                     ret |-> [action |-> NoAction, value |-> Zero]]

\* a call get_action(s, valid_actions) made from outside training, with the
\* empty slice or with the empty spots of s; a failed expect ends the process
QAct ==
    /\ ~panicked
    /\ \E s \in QBoards : \E valid_actions \in {<<>>, get_empty_spots(s, N)} :
       \E g \in get_action(values, eps, s, valid_actions) :
           /\ picked' = [called |-> TRUE, state |-> s, valid_actions |-> valid_actions,
                         panic |-> g.panic, action |-> g.action]
           /\ panicked' = g.panic
    /\ UNCHANGED <<N, board, player, moves, result, illegal, qVars, eps, state, action,
                   pc, episodes, learn_n>>

\* the board sizes possible_minus_explored is called for: those of KeySizes,
\* with a table that updates have filled, and 2^16, with the table of Q::new()
CountSizes == KeySizes \cup {Pow2(16)}

\* a call possible_minus_explored() on the table, from a build of either profile
QCount ==
    /\ ~panicked
    /\ \E profile \in Profiles :
       \E res \in {possible_minus_explored(values, N, profile)} :
           /\ counted' = res
           /\ panicked' = (res.kind # "value")
    /\ UNCHANGED <<N, board, player, moves, result, illegal, alpha, discount, values,
                   qsteps, qcall, agentVars>>

\* Q::<n>::new() for a size of CountSizes; no game is played, and `board` is
\* the board of that size only where the model builds boards of it
InitCount ==
    /\ \E n \in CountSizes :
           /\ N = n
           /\ board = Board_new(IF n \in KeySizes THEN n ELSE 0)
           /\ illegal = NoIllegal(IF n \in KeySizes THEN n ELSE 0)
    /\ player = "X"
    /\ moves = 0
    /\ result = "None"
    /\ panicked = FALSE
    /\ InitQ
    /\ InitAgentIdle

NextCount == QUpdate \/ QCount

SpecCount == InitCount /\ [][NextCount]_vars

\* the table and get_action driven directly, on 3 x 3 boards, by an agent
\* whose eps is one of EpsValues
InitQTable == InitBoard(3) /\ InitQ /\ (\E e \in EpsValues : InitAgent(e))

NextQ == QUpdate \/ QGet \/ QMax \/ QAct

SpecQ == InitQTable /\ [][NextQ]_vars

\* self.qlearner.update(s, a, next_state, reward), recorded as the last call on the table
TrainUpdate(s, a, next_state, reward) ==
    \E order \in OrdersFor(values, next_state) :
        /\ values' = update(values, alpha, discount, s, a, next_state, reward, order)
        /\ qcall' = [op |-> "update", state |-> s, action |-> a,
                     next_state |-> next_state, reward |-> reward,
                     old |-> get(values, s, a),
                     next_q |-> max_action_for_state(values, next_state, order).value,
                     ret |-> [action |-> NoAction, value |-> Zero]]

\* an expect() of learn_one_game or of get_action fails: the process ends
Abort ==
    /\ panicked' = TRUE
    /\ result' = "Panic"
    /\ pc' = "panic"
    /\ UNCHANGED <<N, board, player, moves, illegal, qVars, eps, state, action, episodes,
                   learn_n, picked>>

\* make_move panics inside learn_one_game: the process ends
AbortMove(p, a, res) ==
    /\ panicked' = TRUE
    /\ result' = "Panic"
    /\ board' = res.board
    /\ illegal' = Noted(p, a[1], a[2])
    /\ pc' = "panic"
    /\ UNCHANGED <<N, player, moves, qVars, eps, state, action, episodes, learn_n,
                   picked>>

\* a learn_one_game that plays on with the board of the game before
BeginGame_keepBoard ==
    /\ pc = "learn"
    /\ episodes < learn_n
    /\ pc' = "agent"
    /\ UNCHANGED <<boardVars, qVars, eps, state, action, episodes, learn_n, picked>>

\* learn: the next iteration of `for _ in 0..n` enters learn_one_game
BeginGame ==
    /\ pc = "learn"
    /\ episodes < learn_n
    /\ board' = Board_new(N)
    /\ player' = "X"
    /\ moves' = 0
    /\ result' = "None"
    /\ pc' = "agent"
    /\ UNCHANGED <<N, panicked, illegal, qVars, eps, state, action, episodes, learn_n,
                   picked>>

\* learn_one_game, lines 46-56: the agent picks its action and moves
AgentMove ==
    /\ pc = "agent"
    /\ \E g \in get_action(values, eps, board, get_empty_spots(board, N)) :
        IF g.panic THEN Abort
        ELSE \E res \in {make_move(board, N, player, g.action[1], g.action[2])} :
            IF res.result = "Panic" THEN AbortMove(player, g.action, res)
            ELSE /\ state' = board
                 /\ action' = g.action
                 /\ board' = res.board
                 /\ result' = res.result
                 /\ moves' = moves + 1
                 /\ player' = next_player(player)
                 /\ IF res.result # "None"
                    THEN TrainUpdate(board, g.action, res.board, F64(100)) /\ pc' = "done"
                    ELSE UNCHANGED <<values, qcall>> /\ pc' = "opponent"
                 /\ UNCHANGED <<N, panicked, illegal, alpha, discount, qsteps, counted,
                                eps, episodes, learn_n, picked>>

\* learn_one_game, lines 58-73: the other player moves at random
OpponentMove ==
    /\ pc = "opponent"
    /\ \E g \in choose(get_empty_spots(board, N), OpponentDraws) :
        IF g.panic THEN Abort
        ELSE \E res \in {make_move(board, N, player, g.action[1], g.action[2])} :
            IF res.result = "Panic" THEN AbortMove(player, g.action, res)
            ELSE /\ board' = res.board
                 /\ result' = res.result
                 /\ moves' = moves + 1
                 /\ player' = next_player(player)
                 /\ IF res.result # "None"
                    THEN TrainUpdate(state, action, res.board, F64(0 - 100)) /\ pc' = "done"
                    ELSE TrainUpdate(state, action, res.board, F64(0)) /\ pc' = "agent"
                 /\ UNCHANGED <<N, panicked, illegal, alpha, discount, qsteps, counted,
                                eps, state, action, episodes, learn_n, picked>>

\* learn, line 80: learn_one_game has returned
EndGame ==
    /\ pc = "done"
    /\ eps' = ESub(eps, EpsStep)
    /\ episodes' = episodes + 1
    /\ pc' = "learn"
    /\ UNCHANGED <<boardVars, qVars, state, action, learn_n, picked>>

\* learn, lines 83-88: the loop has run n times; the report is printed and learn returns
LearnReturn ==
    /\ pc = "learn"
    /\ episodes >= learn_n
    /\ pc' = "idle"
    /\ UNCHANGED <<boardVars, qVars, eps, state, action, episodes, learn_n, picked>>

\* Agent::<N>::new() followed by learn(n)
InitTrain ==
    /\ \E n \in TrainSizes : InitBoard(n)
    /\ InitQ
    /\ eps = EpsInit
    /\ state = Board_new(N)
    /\ action = <<0, 0>>
    /\ pc = "learn"
    /\ episodes = 0
    /\ learn_n = EpisodeCap
    /\ picked = NoPick

NextTrain == BeginGame \/ AgentMove \/ OpponentMove \/ EndGame \/ LearnReturn

SpecTrain == InitTrain /\ [][NextTrain]_vars

----------------------------------------------------------------------------
(* eps over a long call of learn.  learn_one_game reads eps (in get_action) *)
(* and writes only the table and its own locals; eps is written by line 80  *)
(* alone.  This specification follows eps and the count of iterations       *)
(* through a call learn(MaxLongRun) and steps over the games.               *)

\* the n of the long call of learn
MaxLongRun == 100002

\* one iteration of `for _ in 0..n`: learn_one_game returns, eps -= 0.00001
LongEpisode ==
    /\ pc = "learn"
    /\ episodes < learn_n
    /\ eps' = ESub(eps, EpsStep)
    /\ episodes' = episodes + 1
    /\ UNCHANGED <<boardVars, qVars, state, action, pc, learn_n, picked>>

\* Agent::<3>::new() followed by learn(MaxLongRun)
InitLong ==
    /\ InitBoard(3)
    /\ InitQ
    /\ eps = EpsInit
    /\ state = Board_new(3)
    /\ action = <<0, 0>>
    /\ pc = "learn"
    /\ episodes = 0
    /\ learn_n = MaxLongRun
    /\ picked = NoPick

NextLong == LongEpisode \/ LearnReturn

SpecLong == InitLong /\ [][NextLong]_vars

----------------------------------------------------------------------------
(* What the claims speak of, stated without the code's own helpers.        *)

Cells(n) == (0..(n - 1)) \X (0..(n - 1))

At(b, cell) == b[cell[1]][cell[2]]

EmptyCells(b, n) == {cell \in Cells(n) : At(b, cell) = Empty}

RowLine(n, r) == {<<r, c>> : c \in 0..(n - 1)}

ColLine(n, c) == {<<r, c>> : r \in 0..(n - 1)}

LrLine(n) == {<<i, i>> : i \in 0..(n - 1)}

RlLine(n) == {<<i, (n - 1) - i>> : i \in 0..(n - 1)}

Lines(n) == {RowLine(n, r) : r \in 0..(n - 1)} \cup {ColLine(n, c) : c \in 0..(n - 1)}
            \cup {LrLine(n), RlLine(n)}

\* every cell of the line holds the mark of p
Owns(b, line, p) == \A cell \in line : At(b, cell) = PieceOf(p)

Owned(b, line) == \E p \in Players : Owns(b, line, p)

SomeLineOwned(b, n) == \E line \in Lines(n) : Owned(b, line)

GameResults == {"XWon", "OWon", "Tie"}

\* (r1, c1) comes before (r2, c2) in row-major order
Before(x, y) == x[1] < y[1] \/ (x[1] = y[1] /\ x[2] < y[2])

RowMajor(seq) == \A i \in DOMAIN seq : \A j \in DOMAIN seq : i < j => Before(seq[i], seq[j])

----------------------------------------------------------------------------
(* The claims.                                                             *)

\* C1: immediately after Q::update(s, a, s2, r), get(s, a) equals
\* old + 0.5 * (r + 0.5 * next_max_q - old), old and next_max_q read before the
\* call, also when the pair (s, a) had never been written.
C1_UpdateStoresTdValue ==
    qcall.op = "update" =>
        get(values, qcall.state, qcall.action)
            = FAdd(qcall.old,
                   FMul(OneHalf,
                        FSub(FAdd(qcall.reward, FMul(OneHalf, qcall.next_q)), qcall.old)))

\* C2: for a state with at least one recorded action, max_action_for_state
\* returns (Some(a), v) with v the greatest value stored for the state and a an
\* action stored with v, whatever the sign of the stored values.
C2_MaxIsGreatestStored ==
    (qcall.op = "max" /\ qcall.state \in DOMAIN values) =>
        /\ qcall.ret.action.some
        /\ qcall.ret.action.act \in DOMAIN values[qcall.state]
        /\ values[qcall.state][qcall.ret.action.act] = qcall.ret.value
        /\ \A a \in DOMAIN values[qcall.state] :
               FGeq(qcall.ret.value, values[qcall.state][a])

\* C3: on a board of any size reached by legal moves, get_winner returns XWon
\* or OWon if and only if some row, column or diagonal is fully occupied by one
\* player's mark.
C3_WinnerIffLineOwned ==
    ~panicked => ((get_winner(board, N) \in {"XWon", "OWon"}) <=> SomeLineOwned(board, N))

C5_MakeMoveResult ==
    (N = 3 /\ moves > 0 /\ ~panicked) =>
        /\ result \in GameResults \cup {"None"}
        /\ (result = "Tie") <=> (EmptyCells(board, N) = {} /\ ~SomeLineOwned(board, N))
        /\ SomeLineOwned(board, N) => result \in {"XWon", "OWon"}
        /\ (result = "None") <=> (EmptyCells(board, N) # {} /\ ~SomeLineOwned(board, N))

\* the move that fills the ninth cell and completes a line for X
C5_Witness ==
    /\ N = 3
    /\ ~panicked
    /\ moves = 9
    /\ EmptyCells(board, N) = {}
    /\ result = "XWon"

\* C6: make_move on a cell that is not Empty, or with a row or col >= N, panics
\* before any write: the board is unchanged and no GameResult is returned.
C6_IllegalMovePanics ==
    illegal.called =>
        /\ panicked
        /\ result = "Panic"
        /\ board = illegal.before

\* a call on an occupied cell of the board has been made
C6_Witness ==
    /\ illegal.called
    /\ illegal.row < N
    /\ illegal.col < N
    /\ At(illegal.before, <<illegal.row, illegal.col>>) # Empty
    /\ panicked

\* C7, in every state: get_empty_spots is the Empty cells, each once, in
\* row-major order, and N*N less the number of moves made of them are left.
C7_State ==
    /\ Elements(get_empty_spots(board, N)) = EmptyCells(board, N)
    /\ RowMajor(get_empty_spots(board, N))
    /\ ~panicked => Len(get_empty_spots(board, N)) = N * N - moves

\* C7, in every step: a successful make_move removes exactly the moved-to
\* coordinate from get_empty_spots.
C7_Step ==
    (moves' = moves + 1) =>
        \E cell \in EmptyCells(board, N) :
            /\ At(board', cell) # Empty
            /\ Elements(get_empty_spots(board', N))
                   = Elements(get_empty_spots(board, N)) \ {cell}
            /\ Len(get_empty_spots(board', N)) = Len(get_empty_spots(board, N)) - 1

\* C7: get_empty_spots returns exactly the Empty cells in row-major order, all
\* N*N of them on a fresh board, and each successful make_move removes exactly
\* the moved-to coordinate.
C7_EmptySpots == [](C7_State) /\ [][C7_Step]_vars

\* five moves made on a 3 x 3 board, four spots left
C7_Witness ==
    /\ N = 3
    /\ ~panicked
    /\ moves = 5
    /\ Len(get_empty_spots(board, N)) = 4

C9_State ==
    /\ ~panicked
    /\ moves <= N * N
    /\ pc \in {"agent", "opponent"} =>
        /\ moves < N * N
        /\ get_empty_spots(board, N) # <<>>
    /\ pc = "agent" => get_action(values, eps, board, get_empty_spots(board, N)) # {}
    /\ pc = "opponent" => choose(get_empty_spots(board, N), OpponentDraws) # {}

\* C9, in every step: each iteration of the loop of learn_one_game is one more
\* make_move call.
C9_Step == pc \in {"agent", "opponent"} => moves' = moves + 1

\* C9: one call of learn_one_game ends after at most N*N make_move calls, for
\* N >= 3, whatever table earlier training left and whatever is drawn.
C9_EpisodeTerminates == [](C9_State) /\ [][C9_Step]_vars

\* an episode after the first that took all nine moves
C9_Witness ==
    /\ N = 3
    /\ episodes >= 1
    /\ pc = "done"
    /\ moves = N * N

\* C10: training on a 3 x 3 board from a fresh agent never fails: get_action
\* never gets an empty valid_actions, the opponent never chooses from an empty
\* set, and every move made, the greedy one included, is to an Empty cell.
C10_TrainingNeverFails ==
    N = 3 =>
        /\ ~panicked
        /\ pc # "panic"
        /\ ~illegal.called
        /\ pc = "agent" =>
            /\ get_empty_spots(board, N) # <<>>
            /\ \A g \in get_action(values, eps, board, get_empty_spots(board, N)) :
                   ~g.panic /\ TargetEmpty(board, N, g.action[1], g.action[2])
            /\ \A order \in OrdersFor(values, board) :
                   max_action_for_state(values, board, order).action.some =>
                       max_action_for_state(values, board, order).action.act
                           \in EmptyCells(board, N)
        /\ pc = "opponent" => get_empty_spots(board, N) # <<>>

\* the agent is to move, may exploit, and the table has a greedy action for the board
C10_Witness ==
    /\ N = 3
    /\ pc = "agent"
    /\ CanExploit(eps)
    /\ \E order \in OrdersFor(values, board) :
           max_action_for_state(values, board, order).action.some

\* the table after one Q::update(s, a, next_state, reward) with alpha = discount = 0.5
OneUpdate(s, a, next_state, reward) ==
    /\ \E order \in OrdersFor(values, next_state) :
           values' = update(values, OneHalf, OneHalf, s, a, next_state, reward, order)
    /\ qcall'.op = "update"
    /\ qcall'.state = s
    /\ qcall'.action = a
    /\ qcall'.next_state = next_state
    /\ qcall'.reward = reward

\* C11, a step of the agent: the pair of this iteration is (board before the
\* move, action); a move that returns a result is followed by the update with
\* +100 against the board after the move and ends the episode, any other move
\* by no update before the opponent's reply.
C11_AgentStep ==
    (pc = "agent" /\ pc' # "panic") =>
        /\ state' = board
        /\ board' = PlacePiece(board, "X", action'[1], action'[2])
        /\ IF result' # "None"
           THEN pc' = "done" /\ OneUpdate(board, action', board', F64(100))
           ELSE pc' = "opponent" /\ values' = values /\ qcall' = qcall

\* C11, a step of the opponent: the reply is followed by the one update of the
\* agent's pair against the board after the reply, with -100 if the reply
\* returned a result and with 0 if not; after 0 the agent moves next, from that board.
C11_OpponentStep ==
    (pc = "opponent" /\ pc' # "panic") =>
        /\ state' = state
        /\ action' = action
        /\ IF result' # "None"
           THEN pc' = "done" /\ OneUpdate(state, action, board', F64(0 - 100))
           ELSE pc' = "agent" /\ OneUpdate(state, action, board', F64(0))

\* C11, between the games: learn itself makes no update
C11_OtherStep == pc \in {"learn", "done"} => (values' = values /\ qcall' = qcall)

\* C11: in learn_one_game every agent move is followed by exactly one
\* Q::update for (board before the agent's move, agent's action): +100 against
\* the post-move board if the agent's move returned a result, else -100 if the
\* opponent's reply returned a result, else 0, the last two against the board
\* after the reply, which after reward 0 is the state of the next iteration.
C11_OneUpdatePerAgentMove ==
    [][C11_AgentStep /\ C11_OpponentStep /\ C11_OtherStep]_vars

\* an episode that the opponent's reply ended, after a reward-0 iteration
C11_Witness ==
    /\ pc = "done"
    /\ moves >= 4
    /\ result = "OWon"
    /\ qcall.op = "update"
    /\ qcall.state = state
    /\ qcall.action = action
    /\ qcall.next_state = board
    /\ qcall.reward = F64(0 - 100)

\* C12: get_action called with an empty valid_actions always fails, whatever
\* eps, the exploration draw and the table are; it never returns an action.
C12_EmptyAlwaysFails ==
    (picked.called /\ picked.valid_actions = <<>>) => picked.panic

\* the pair (s, a) has been written: the table holds the state and, under it, the action
Written(vals, s, a) == s \in DOMAIN vals /\ a \in DOMAIN vals[s]

\* C13, in every state: what the last get returned is the stored value, and
\* 0.0 for a pair that was never written.
C13_State ==
    qcall.op = "get" =>
        IF Written(values, qcall.state, qcall.action)
        THEN qcall.ret.value = values[qcall.state][qcall.action]
        ELSE qcall.ret.value = Zero

\* C13, in every step: a get leaves every key and every stored value as it was.
C13_Step == (qcall'.op = "get" /\ qcall' # qcall) => values' = values

\* C13: Q::get returns 0.0 for every pair that was never written (state absent,
\* or state present and action absent) and never changes the table.
C13_GetIsPureRead == [](C13_State) /\ [][C13_Step]_vars

\* a get of an action that its state, present in the table, does not hold
C13_Witness ==
    /\ qcall.op = "get"
    /\ qcall.state \in DOMAIN values
    /\ qcall.action \notin DOMAIN values[qcall.state]

\* C14, in every state: the last max_action_for_state of a state without an
\* entry returned (None, 0.0), and the state still has no entry.
C14_State ==
    (qcall.op = "max" /\ qcall.state \notin DOMAIN values) =>
        /\ ~qcall.ret.action.some
        /\ qcall.ret.value = Zero

\* C14, in every step: max_action_for_state leaves the table as it was.
C14_Step == (qcall'.op = "max" /\ qcall' # qcall) => values' = values

\* C14: Q::max_action_for_state returns (None, 0.0) for every state that has no
\* entry in the table, and creates no entry for it.
C14_MaxOfUnexplored == [](C14_State) /\ [][C14_Step]_vars

\* max_action_for_state of a state without an entry, in a table that holds another state
C14_Witness ==
    /\ qcall.op = "max"
    /\ values # EmptyMap
    /\ qcall.state \notin DOMAIN values

\* C15: Q::update on a table where the state is absent, or present without the
\* action, completes without failure (nothing but a later get_action fails) and
\* leaves an entry for the state that contains the action.
C15_UpdateCreatesEntry ==
    qcall.op = "update" =>
        /\ Written(values, qcall.state, qcall.action)
        /\ panicked => picked.panic

\* the second update made on the table added a second action to a state it held
C15_Witness ==
    /\ qcall.op = "update"
    /\ qsteps = 2
    /\ Cardinality(DOMAIN values) = 1
    /\ Cardinality(DOMAIN values[qcall.state]) = 2

\* x - y as a real number, not rounded
ExactDiff(x, y) ==
    IF x.neg # y.neg THEN Signed(x.neg, MagAdd(x.mag, y.mag))
    ELSE IF MagLess(x.mag, y.mag) THEN Signed(~x.neg, MagSub(y.mag, x.mag))
    ELSE Signed(x.neg, MagSub(x.mag, y.mag))

\* 0.00001 as the claim writes it: the f64 nearest to it, in units of 2^-69
HundredThousandth == Signed(FALSE, <<14903537, 16299400, 20>>)

\* 1.0 - k * 0.00001 as a real number
ClosedExact(k) == ExactDiff(EOne, Signed(FALSE, MagScale(HundredThousandth.mag, k)))

\* 1.0 - k * 0.00001 as the f64 expression evaluates: the product rounded, then the difference
ClosedF64(k) == ESub(EOne, Signed(FALSE, MagRound(MagScale(HundredThousandth.mag, k))))

\* x and y differ by at most k * 2^-54, half a unit in the last place of an
\* f64 below 1.0 for each of k roundings
Near(x, y, k) == ~MagLess(MagScale(<<Pow2(15), 0, 0>>, k), ExactDiff(x, y).mag)

\* C16 as claimed, in every state: k episodes leave eps = 1.0 - k * 0.00001
\* (read as a real number or as the f64 expression), negative after more than
\* 100,000 of them, and learn(n) runs n episodes.
C16_ClosedFormState ==
    /\ episodes <= learn_n
    /\ pc = "idle" => episodes = learn_n
    /\ eps \in {ClosedExact(episodes), ClosedF64(episodes)}
    /\ episodes > 100000 => ELess(eps, EZero)

\* C16, in every step: an episode counts one up and eps does not increase.
C16_ClosedFormStep ==
    /\ episodes' \in {episodes, episodes + 1}
    /\ ~ELess(eps, eps')

\* C16 as claimed: learn(n) runs exactly n episodes and decrements eps by
\* 0.00001 after each, with no floor: after k completed episodes
\* eps = 1.0 - k * 0.00001, eps never increases, and after more than 100,000
\* episodes eps is negative.
C16_EpsClosedForm == [](C16_ClosedFormState) /\ [][C16_ClosedFormStep]_vars

\* C16 amended, in every state: after k <= 100,000 episodes eps is within
\* k * 2^-54 of 1.0 - k * 0.00001 (exactly 1.0 after none) and positive; after
\* more than 100,000 it is negative; learn(n) runs n episodes.
C16_State ==
    /\ episodes <= learn_n
    /\ pc = "idle" => episodes = learn_n
    /\ episodes = 0 => eps = EOne
    /\ episodes <= 100000 => Near(eps, ClosedExact(episodes), episodes)
    /\ episodes <= 100000 => ELess(EZero, eps)
    /\ episodes > 100000 => ELess(eps, EZero)

\* C16 amended, in every step: an episode counts one up and eps does not
\* increase; nothing but the end of an episode changes eps.
C16_Step ==
    /\ episodes' \in {episodes, episodes + 1}
    /\ ~ELess(eps, eps')
    /\ episodes' = episodes => eps' = eps

\* C16 amended: learn(n) runs exactly n episodes and subtracts the f64 0.00001
\* from eps after each, with no floor: eps never increases, after k <= 100,000
\* episodes it is 1.0 - k * 0.00001 up to a rounding error of at most k * 2^-54,
\* it is still positive after exactly 100,000 episodes and negative after more.
C16_EpsDecrements == [](C16_State) /\ [][C16_Step]_vars

\* more than 100,000 episodes are done and eps is below zero
C16_Witness ==
    /\ episodes > 100000
    /\ ELess(eps, EZero)

\* C17, in every step: every pair the table holds before the step it holds after it.
C17_Step ==
    \A s \in DOMAIN values :
        /\ s \in DOMAIN values'
        /\ DOMAIN values[s] \subseteq DOMAIN values'[s]

\* C17: entries of the Q-table are never evicted: over any sequence of updates
\* and training episodes the state keys and the actions recorded for each state
\* only grow, and the start of a new episode does not reset the table.
C17_NeverEvicted == [][C17_Step]_vars

\* a later episode has begun with the table of the earlier ones, and a state
\* holds two actions
C17_Witness ==
    /\ episodes >= 1
    /\ pc = "agent"
    /\ moves = 0
    /\ board \in DOMAIN values
    /\ \E s \in DOMAIN values : Cardinality(DOMAIN values[s]) >= 2

\* one of the three checks of get_winner: the rows, the columns or the diagonals
WinnerAmong(b, n, lines) ==
    IF lines = "rows" THEN RowScan(b, n, 0)
    ELSE IF lines = "cols" THEN ColScan(b, n, 0)
    ELSE IF diagonal_winner(b, n) # "None" THEN ResultOf(diagonal_winner(b, n))
    ELSE "None"

\* get_winner with its three checks made in the order `order`
RECURSIVE WinnerInOrder(_, _, _)
WinnerInOrder(b, n, order) ==
    IF order = <<>> THEN "None"
    ELSE IF WinnerAmong(b, n, Head(order)) # "None" THEN WinnerAmong(b, n, Head(order))
    ELSE WinnerInOrder(b, n, Tail(order))

CheckOrders == IterOrders({"rows", "cols", "diag"})

\* C18: in every board of a legal 3 x 3 game (X first, alternating, play stops
\* at the first result) X and O never both have a complete line, so get_winner
\* names the owner of every complete line and returns the same result whatever
\* the order in which rows, columns and diagonals are checked.
C18_OneOwnerOfLines ==
    N = 3 =>
        /\ ~(/\ \E line \in Lines(3) : Owns(board, line, "X")
             /\ \E line \in Lines(3) : Owns(board, line, "O"))
        /\ \A p \in Players : \A line \in Lines(3) :
               Owns(board, line, p) => get_winner(board, 3) = ResultOf(p)
        /\ \A order \in CheckOrders :
               WinnerInOrder(board, 3, order) = get_winner(board, 3)

\* the winning move completed two lines at once
C18_Witness ==
    /\ N = 3
    /\ result = "XWon"
    /\ \E l1 \in Lines(3) : \E l2 \in Lines(3) :
           l1 # l2 /\ Owns(board, l1, "X") /\ Owns(board, l2, "X")

\* the number of cells of b that hold `piece`
Marks(b, n, piece) == Cardinality({cell \in Cells(n) : At(b, cell) = piece})

\* C19, in every state of training: X has as many marks as O or one more; the
\* agent moves as X on a board with equal counts, the opponent as O on a
\* board where X is one ahead.
C19_State ==
    /\ Marks(board, N, PieceX) - Marks(board, N, PieceO) \in {0, 1}
    /\ pc = "agent" =>
           player = "X" /\ Marks(board, N, PieceX) = Marks(board, N, PieceO)
    /\ pc = "opponent" =>
           player = "O" /\ Marks(board, N, PieceX) = Marks(board, N, PieceO) + 1

\* C19, in every step: a move of the agent adds one X, a move of the opponent
\* one O, and the turn passes to the other player.
C19_Step ==
    (moves' = moves + 1) =>
        /\ player' # player
        /\ pc = "agent" =>
               /\ Marks(board', N, PieceX) = Marks(board, N, PieceX) + 1
               /\ Marks(board', N, PieceO) = Marks(board, N, PieceO)
        /\ pc = "opponent" =>
               /\ Marks(board', N, PieceO) = Marks(board, N, PieceO) + 1
               /\ Marks(board', N, PieceX) = Marks(board, N, PieceX)

\* C19: in every training episode the mover alternates strictly X, O, X, ...
\* from X (the agent is X, the random opponent O), so every board reached in
\* learn_one_game has as many X as O marks or one X more.
C19_MoversAlternate == [](C19_State) /\ [][C19_Step]_vars

\* the opponent is to make the sixth move of a game of a later episode
C19_Witness ==
    /\ N = 3
    /\ episodes >= 1
    /\ pc = "opponent"
    /\ moves = 5
    /\ Marks(board, N, PieceX) = 3
    /\ Marks(board, N, PieceO) = 2

\* acc * 3^k
RECURSIVE TimesPower3(_, _)
TimesPower3(acc, k) ==
    IF k = 0 \/ acc = MagZero THEN acc ELSE TimesPower3(MagScale(acc, 3), k - 1)

Power3(k) == TimesPower3(<<1, 0, 0>>, k)

\* 3^(n*n) is below 2^64: 3^40 is, 3^41 is not
FitsU64(n) == n < 7 /\ Fits64(Power3(n * n)) /\ ~Fits64(Power3(41))

\* C20: possible_minus_explored returns 3^(N*N) less the number of state keys
\* whenever 3^(N*N) fits in 64 bits (19683 less the keys for N = 3), the
\* subtraction never underflowing, and fails, never returning a wrapped value,
\* when 3^(N*N) does not fit.
C20_CountOrOverflow ==
    counted.called =>
        IF FitsU64(N)
        THEN /\ counted.kind = "value"
             /\ counted.value = MagSub(Power3(N * N), <<counted.keys, 0, 0>>)
             /\ N = 3 => counted.value = <<19683 - counted.keys, 0, 0>>
        ELSE counted.kind \in {"overflow", "arith"}

\* the empty 3 x 3 board and the board after X (1,1)
LateEmpty == Board_new(3)

LateCentre == PlacePiece(Board_new(3), "X", 1, 1)

\* the table after one update of (empty board, (1,1)): the pair holds 0.0
LateOnce ==
    update(EmptyMap, OneHalf, OneHalf, LateEmpty, <<1, 1>>, LateCentre, F64(100), <<>>)

\* the table after a second update of the pair: it holds 50.0
LateTwice ==
    update(LateOnce, OneHalf, OneHalf, LateEmpty, <<1, 1>>, LateCentre, F64(100), <<>>)

\* tables get_action may meet: none, a state with no positive value, a state with one
LateTables == {EmptyMap, LateOnce, LateTwice}

\* get_action(s, empty spots of s) on the table vals takes the greedy branch
\* only: it returns the action of max_action_for_state when there is one, and
\* one of the valid actions only when there is none
GreedyOnly(vals, e, s) ==
    \A g \in get_action(vals, e, s, get_empty_spots(s, 3)) :
        IF \E order \in OrdersFor(vals, s) : max_action_for_state(vals, s, order).action.some
        THEN /\ ~g.panic
             /\ \E order \in OrdersFor(vals, s) :
                    max_action_for_state(vals, s, order).action = Some(g.action)
        ELSE /\ \A order \in OrdersFor(vals, s) :
                    ~max_action_for_state(vals, s, order).action.some
             /\ ~g.panic
             /\ g.action \in EmptyCells(s, 3)

\* C21 as claimed: once 100,000 or more episodes are completed eps <= 0, and
\* get_action never explores: it returns the action of max_action_for_state
\* whenever that is Some(a), and a random valid action only when it is None.
C21_NoExploringFrom100000 ==
    episodes >= 100000 =>
        /\ ~ELess(EZero, eps)
        /\ \A vals \in LateTables : GreedyOnly(vals, eps, LateEmpty)

\* C21 amended: once eps <= 0, which is after 100,001 or more completed
\* episodes (after exactly 100,000 eps is still above 0.0 and a draw below it
\* still explores), get_action never explores: it returns the action of
\* max_action_for_state whenever that is Some(a), and a random valid action
\* only when it is None.
C21_NoExploringOnceNotPositive ==
    /\ episodes >= 100001 => ~ELess(EZero, eps)
    /\ episodes = 100000 => ELess(EZero, eps)
    /\ ~ELess(EZero, eps) => \A vals \in LateTables : GreedyOnly(vals, eps, LateEmpty)
    /\ (ELess(EZero, eps) /\ episodes > 0) =>
           \E g \in get_action(LateTwice, eps, LateEmpty, get_empty_spots(LateEmpty, 3)) :
               g.action # <<1, 1>>

\* 100,001 episodes are done, and get_action has the stored (1,1) as its only
\* answer for the empty board
C21_Witness ==
    /\ episodes = 100001
    /\ get_action(LateTwice, eps, LateEmpty, get_empty_spots(LateEmpty, 3))
           = {[panic |-> FALSE, action |-> <<1, 1>>]}

\* C22: in 3 x 3 training the opponent's move never returns Tie: the -100
\* update is applied only after an opponent's move that returned OWon, the
\* +100 update after an agent's move that returned XWon or, at the 9th ply, Tie.
C22_OpponentNeverTies ==
    /\ (N = 3 /\ pc = "done") =>
        /\ qcall.op = "update"
        /\ qcall.reward \in {F64(100), F64(0 - 100)}
        /\ qcall.reward = F64(0 - 100) <=> moves % 2 = 0
        /\ qcall.reward = F64(0 - 100) => result = "OWon"
        /\ qcall.reward = F64(100) => result \in {"XWon", "Tie"}
        /\ result = "Tie" => moves = 9
    /\ (N = 3 /\ pc = "opponent") =>
        \A a \in Elements(get_empty_spots(board, N)) :
            make_move(board, N, "O", a[1], a[2]).result \in {"None", "OWon"}

\* the agent's ninth ply filled the board without a line and was given +100
C22_Witness ==
    /\ N = 3
    /\ pc = "done"
    /\ result = "Tie"
    /\ moves = 9
    /\ qcall.reward = F64(100)
    /\ qcall.next_state = board

\* C23: after any number of 3 x 3 training episodes every action recorded under
\* a board key of the table is the coordinate of an Empty cell of that board,
\* so a greedy action for the board the agent is to move on is a legal move.
C23_RecordedActionsAreEmptyCells ==
    N = 3 =>
        /\ \A s \in DOMAIN values : \A a \in DOMAIN values[s] :
               /\ a \in Cells(3)
               /\ At(s, a) = Empty
        /\ pc = "agent" =>
               \A order \in OrdersFor(values, board) :
                   max_action_for_state(values, board, order).action.some =>
                       MoveAllowed(board, 3,
                                   max_action_for_state(values, board, order).action.act[1],
                                   max_action_for_state(values, board, order).action.act[2])

\* two episodes are done; the table holds several boards, one of them with a
\* positive value recorded for a cell that is not its first Empty one
C23_Witness ==
    /\ N = 3
    /\ episodes >= 2
    /\ Cardinality(DOMAIN values) >= 3
    /\ \E s \in DOMAIN values : \E a \in DOMAIN values[s] :
           /\ FGt(values[s][a], Zero)
           /\ a # Head(get_empty_spots(s, 3))

\* the three cells hold the same mark
SameMark(b, c1, c2, c3) ==
    /\ At(b, c1) # Empty
    /\ At(b, c1) = At(b, c2)
    /\ At(b, c2) = At(b, c3)

\* the game on the 3 x 3 board b is over: a row, a column or a diagonal holds
\* three equal marks, or no cell is Empty
Terminal(b) ==
    \/ \E i \in 0..2 : SameMark(b, <<i, 0>>, <<i, 1>>, <<i, 2>>)
    \/ \E i \in 0..2 : SameMark(b, <<0, i>>, <<1, i>>, <<2, i>>)
    \/ SameMark(b, <<0, 0>>, <<1, 1>>, <<2, 2>>)
    \/ SameMark(b, <<0, 2>>, <<1, 1>>, <<2, 0>>)
    \/ \A r \in 0..2 : \A c \in 0..2 : b[r][c] # Empty

\* the number of X marks of b less the number of its O marks
Lead(b) ==
    b[0][0] + b[0][1] + b[0][2] + b[1][0] + b[1][1] + b[1][2] + b[2][0] + b[2][1] + b[2][2]

\* a board on which the agent is to move: not terminal, as many X as O marks
AgentTurnBoard(b) == Lead(b) = 0 /\ ~Terminal(b)

\* C24: after any number of 3 x 3 training episodes every key of the table is a
\* board that is not terminal and holds as many X as O marks; no terminal
\* board is a key, so an update whose next state is terminal uses
\* next_max_q = 0.0 (an update that read another next_max_q, or whose next
\* state is a key, had a next state that is not terminal).  Within an episode
\* the key that the last update wrote is such a board too.
C24_KeysAreAgentTurnBoards ==
    N = 3 =>
        /\ pc \in {"learn", "idle"} => \A s \in DOMAIN values : AgentTurnBoard(s)
        /\ (pc = "agent" /\ moves > 0) =>
               /\ qcall.state \in DOMAIN values
               /\ AgentTurnBoard(qcall.state)
        /\ (qcall.op = "update"
            /\ (qcall.next_q # Zero \/ qcall.next_state \in DOMAIN values)) =>
               ~Terminal(qcall.next_state)
        /\ pc = "done" => (Terminal(qcall.next_state) /\ qcall.next_q = Zero)

\* in a later episode the opponent's winning reply has been followed by the
\* update against the won board, and the table holds positive values
C24_Witness ==
    /\ N = 3
    /\ episodes >= 2
    /\ pc = "done"
    /\ qcall.op = "update"
    /\ qcall.next_state = board
    /\ SomeLineOwned(board, 3)
    /\ qcall.next_q = Zero
    /\ \E s \in DOMAIN values : \E a \in DOMAIN values[s] : FGt(values[s][a], Zero)

Pairs(vals) == UNION {{<<s, a>> : a \in DOMAIN vals[s]} : s \in DOMAIN vals}

\* C26, in every state: alpha and discount are 0.5.
C26_State == alpha = OneHalf /\ discount = OneHalf

\* C26, in every step that is an update(state, action, next_state, reward):
\* every pair other than (state, action) that the table held it still holds,
\* with the value it had; the only pair that may be new is (state, action); no
\* state other than `state` becomes a key, next_state included.
C26_Step ==
    (qsteps' = qsteps + 1) =>
        /\ qcall'.op = "update"
        /\ \A pr \in Pairs(values) \ {<<qcall'.state, qcall'.action>>} :
               /\ pr \in Pairs(values')
               /\ values'[pr[1]][pr[2]] = values[pr[1]][pr[2]]
        /\ Pairs(values') \subseteq Pairs(values) \cup {<<qcall'.state, qcall'.action>>}
        /\ DOMAIN values' \subseteq DOMAIN values \cup {qcall'.state}
        /\ (qcall'.next_state # qcall'.state /\ qcall'.next_state \notin DOMAIN values) =>
               qcall'.next_state \notin DOMAIN values'
        /\ alpha' = alpha
        /\ discount' = discount

\* C26: Q::update(state, action, next_state, reward) changes at most the one
\* entry (state, action): every other pair keeps its presence and its stored
\* value, no entry is created for next_state, and alpha and discount stay 0.5.
C26_UpdateTouchesOnePair == [](C26_State) /\ [][C26_Step]_vars

\* the third update gave a new value to a pair while another pair, under
\* another state, kept what it held
C26_Witness ==
    /\ qcall.op = "update"
    /\ qsteps = 3
    /\ qcall.next_state # qcall.state
    /\ Written(values, qcall.state, qcall.action)
    /\ values[qcall.state][qcall.action] # Zero
    /\ \E pr \in Pairs(values) : pr[1] # qcall.state

\* C27, in every state of training: a game is in play only while no move has
\* returned a result, it begins on the all-Empty board with X to move, and it
\* is over as soon as a move has returned one.
C27_State ==
    /\ pc \in {"agent", "opponent"} => result = "None"
    /\ (pc = "agent" /\ moves = 0) => (board = Board_new(N) /\ player = "X")
    /\ pc = "done" =>
           /\ result \in GameResults
           /\ qcall.op = "update"
           /\ qcall.next_state = board
           /\ qcall.reward \in {F64(100), F64(0 - 100)}

\* C27, in every step: an episode begins on a new all-Empty board with X to
\* move; the move that returns a result is followed by the terminal update and
\* ends the episode; once it is over nothing moves and nothing is updated
\* until the next episode begins.
C27_Step ==
    /\ (pc = "learn" /\ pc' = "agent") =>
           (board' = Board_new(N) /\ player' = "X" /\ moves' = 0 /\ result' = "None")
    /\ (pc \in {"agent", "opponent"} /\ pc' # "panic") =>
           /\ moves' = moves + 1
           /\ (result' # "None") <=> (pc' = "done")
           /\ pc' = "done" => (qcall'.op = "update" /\ qcall'.next_state = board')
    /\ pc \in {"done", "learn", "idle"} =>
           /\ values' = values
           /\ qcall' = qcall
           /\ pc' # "agent" => (board' = board /\ moves' = moves)
    /\ pc = "done" => pc' = "learn"
    /\ pc' = "agent" => (pc = "learn" \/ (pc = "opponent" /\ result' = "None"))

\* C27: every training episode starts from the all-Empty board with X to move
\* and ends at the first make_move that returns a result: after it
\* learn_one_game applies no further move and no update beyond the single
\* terminal one, and the next episode starts again from an empty board.
C27_EpisodeEndsAtFirstResult == [](C27_State) /\ [][C27_Step]_vars

\* a later episode has begun on the empty board, the last update being the
\* terminal one of the episode before, made for a board that was not empty
C27_Witness ==
    /\ episodes >= 1
    /\ pc = "agent"
    /\ moves = 0
    /\ board = Board_new(N)
    /\ player = "X"
    /\ qcall.op = "update"
    /\ qcall.reward = F64(100)
    /\ qcall.state # Board_new(N)
    /\ qcall.next_state # board

\* C28: is_ended() is true exactly when no cell is Empty, which is exactly when
\* get_empty_spots() is empty; it is false on a fresh board and true on a board
\* whose N*N cells are all marked, whether or not anyone has won.
C28_EndedIffNoEmptyCell ==
    /\ is_ended(board, N) <=> (\A cell \in Cells(N) : At(board, cell) # Empty)
    /\ is_ended(board, N) <=> (get_empty_spots(board, N) = <<>>)
    /\ board = Board_new(N) => ~is_ended(board, N)
    /\ (Marks(board, N, PieceX) + Marks(board, N, PieceO) = N * N) => is_ended(board, N)

\* a board with all nine cells marked on which X holds a complete line
C28_Witness ==
    /\ N = 3
    /\ ~panicked
    /\ moves = 9
    /\ is_ended(board, N)
    /\ \E line \in Lines(3) : Owns(board, line, "X")

\* C29: for every board get_lr_diag() yields the N cells (i, i), i = 0..N-1, in
\* that order, and get_rl_diag() the N cells (i, N-1-i), i = 0..N-1, in that
\* order: row ascending, from the top-right corner.
C29_DiagonalsInRowOrder ==
    /\ Len(get_lr_diag(board, N)) = N
    /\ Len(get_rl_diag(board, N)) = N
    /\ \A i \in 0..(N - 1) :
           /\ get_lr_diag(board, N)[i + 1] = At(board, <<i, i>>)
           /\ get_rl_diag(board, N)[i + 1] = At(board, <<i, (N - 1) - i>>)
    /\ Head(get_rl_diag(board, N)) = At(board, <<0, N - 1>>)

\* a 4 x 4 board whose right-to-left diagonal starts with the X of the
\* top-right corner and ends with the O of the bottom-left one
C29_Witness ==
    /\ N = 4
    /\ At(board, <<0, 3>>) = PieceX
    /\ At(board, <<3, 0>>) = PieceO
    /\ At(board, <<0, 0>>) = PieceO
    /\ get_rl_diag(board, N) = <<PieceX, Empty, Empty, PieceO>>
    /\ get_lr_diag(board, N) = <<PieceO, Empty, Empty, Empty>>

====
